---- MODULE Spec2Model ----
(***************************************************************************)
(* Model of the panel layout of anemoi_analyse/field_plotter.py:           *)
(*   panel_daemon      the layout resolver (lines 18-148)                  *)
(*   FieldPlotter.plot the loop binding every panel to its data (454-526)  *)
(* Python lists, tuples and numpy arrays are functions on 0..n-1, so that  *)
(* indices read as in the source.                                          *)
(***************************************************************************)
EXTENDS Integers, FiniteSets, Sequences, TLC

\* Bounds of the model: the largest inputs explored.
MaxModels == 3
MaxLeadTimes == 17
MaxEns == 5
\* The requested lead times explored: lead_times[n] = first + step * n.
MaxFirstLeadTime == 1
MaxLeadTimeStep == 2

\* Python's None, where an int is expected otherwise.
None == -1
\* Python's None, where a tuple is expected otherwise (conf_map[0]).
NoneTuple == <<>>

\* Dimension indices of var_len: 0: model, 1: lead time, 2: ens.
Dims == 0..2

List1(a) == [x \in 0..0 |-> a]
List2(a, b) == [x \in 0..1 |-> IF x = 0 THEN a ELSE b]
List3(a, b, c) == [x \in 0..2 |-> IF x = 0 THEN a ELSE IF x = 1 THEN b ELSE c]
Length(t) == Cardinality(DOMAIN t)
Last(t) == t[Length(t) - 1]
\* reversed(t)
Reversed(t) == [x \in DOMAIN t |-> t[Length(t) - 1 - x]]

\* plot_ens_mean as the int that "ens_size + plot_ens_mean" adds.
BoolInt(b) == IF b THEN 1 ELSE 0

\* Lines 72-79: an undefined ensemble size is 0 with the mean, else 1.
ResolveEnsSize(ens, plot_mean) ==
    IF ens = None THEN (IF plot_mean THEN 0 ELSE 1) ELSE ens

\* Line 82: always append ens mean panel in ensemble dim.
NumMembers(ens, plot_mean) == ResolveEnsSize(ens, plot_mean) + BoolInt(plot_mean)

\* Line 85.
VarLen(nm, nl, ens, plot_mean) == List3(nm, nl, NumMembers(ens, plot_mean))

DimensionsValidNoOneCheck(var_len) ==
    \A d \in Dims : var_len[d] # 0

\* Lines 86-87: the two assertions.
DimensionsValid(var_len) ==
    /\ \A d \in Dims : var_len[d] # 0
    /\ \E d \in Dims : var_len[d] = 1

ArgSortsDescending(var_len) ==
    { p \in [Dims -> Dims] :
        /\ \A a, b \in Dims : a # b => p[a] # p[b]
        /\ \A a, b \in Dims : a < b => var_len[p[a]] >= var_len[p[b]] }

\* Line 92: np.argsort(var_len) with the default kind (quicksort), which numpy
\* documents as not stable: every permutation that puts the lengths in
\* ascending order is a result a build can produce.
ArgSorts(var_len) ==
    { p \in [Dims -> Dims] :
        /\ \A a, b \in Dims : a # b => p[a] # p[b]
        /\ \A a, b \in Dims : a < b => var_len[p[a]] <= var_len[p[b]] }

\* Lines 98-106: ensemble mean position [only ens mean, x, y].
EnsMeanPos(plot_mean, var_idx_xy, num_members) ==
    IF ~plot_mean THEN List3(None, None, None)
    ELSE IF var_idx_xy[0] = 2 THEN List3(None, num_members - 1, None)
    ELSE IF var_idx_xy[1] = 2 THEN List3(None, None, num_members - 1)
    ELSE List3(0, None, None)

RefDimAlongLeadTime(var_idx_xy) == IF var_idx_xy[0] # 1 THEN 1 ELSE 0

\* Lines 111-116: add ref along longest dim, but not lead times.
RefDim(var_idx_xy) == IF var_idx_xy[0] # 1 THEN 0 ELSE 1

\* Lines 122-127.
conf_map ==
    [n \in 0..16 |->
        CASE n = 0 -> NoneTuple
          [] n = 1 -> List2(1, 1)
          [] n = 2 -> List2(1, 2)
          [] n \in 3..4 -> List2(2, 2)
          [] n \in 5..6 -> List2(2, 3)
          [] n \in 7..8 -> List2(2, 4)
          [] n = 9 -> List2(3, 3)
          [] n \in 10..12 -> List2(3, 4)
          [] OTHER -> List2(4, 4)]

\* Line 128: len(conf_map) - 1.
panel_limit == Cardinality(DOMAIN conf_map) - 1

Min2(t) == IF t[0] < t[1] THEN t[0] ELSE t[1]

NeedsRearrangeNever(panel_shape) == Min2(panel_shape) < 1

\* Line 121: rearrange to 2d if 1d.
NeedsRearrange(panel_shape) == Min2(panel_shape) < 2

PanelLimitReachedAtLimit(panel_shape) == panel_shape[1] >= panel_limit

\* Lines 130-131: raise ValueError("Panel limit reached!").
PanelLimitReached(panel_shape) == panel_shape[1] > panel_limit

\* A call that raised: only the exception's type is left.
Raised(exc) == [status |-> exc]

\* Lines 141-148: the optional reversal of every result and the return.
\* tuple(None) and reversed(None) both raise TypeError.
Finish(panel_shape, var_idx_xy, var_len_xy, ens_mean, ref, swap) ==
    IF ens_mean = NoneTuple THEN Raised("TypeError")
    ELSE IF swap
    THEN [status |-> "ok",
          panel_shape |-> Reversed(panel_shape),
          var_idx_xy |-> Reversed(var_idx_xy),
          var_len_xy |-> Reversed(var_len_xy),
          ens_mean |-> Reversed(ens_mean),
          ref_dim |-> Reversed(ref)]
    ELSE [status |-> "ok",
          panel_shape |-> panel_shape,
          var_idx_xy |-> var_idx_xy,
          var_len_xy |-> var_len_xy,
          ens_mean |-> ens_mean,
          ref_dim |-> ref]

\* Lines 120-139: the rearrangement of one dimension into a near-square grid.
\* conf_map[None] raises TypeError; var_len_xy is a view of panel_shape.
Rearrange(panel_shape, var_idx_xy, ens_mean, ref, plot_mean, include_ref, swap) ==
    IF PanelLimitReached(panel_shape) THEN Raised("ValueError")
    ELSE IF plot_mean /\ Last(ens_mean) = None THEN Raised("TypeError")
    ELSE IF include_ref /\ Last(ref) = None THEN Raised("TypeError")
    ELSE Finish(conf_map[Last(panel_shape)],
                List1(var_idx_xy[1]),
                List1(panel_shape[1]),
                IF plot_mean THEN conf_map[Last(ens_mean)] ELSE ens_mean,
                IF include_ref THEN conf_map[Last(ref)] ELSE ref,
                swap)

CopiedVarLenXY(var_len_xy, panel_shape) == var_len_xy

\* Lines 95-96 and 118: "panel_shape = var_len_xy" binds a second name to the
\* same numpy array, so after "panel_shape[ref_dim] += 1" var_len_xy reads as
\* panel_shape does.
AliasedVarLenXY(var_len_xy, panel_shape) == panel_shape

\* Lines 72-148, given the result var_idx of the argsort of line 92.
\* panel_shape is the same array as var_len_xy (line 96), so the += 1 of
\* line 118 shows in both.
panel_daemon(nm, nl, ens, plot_mean, include_ref, swap, var_idx) ==
    LET num_members == NumMembers(ens, plot_mean)
        var_len == VarLen(nm, nl, ens, plot_mean)
    IN  IF ~DimensionsValid(var_len) THEN Raised("AssertionError")
        ELSE
        LET var_idx_xy == List2(var_idx[1], var_idx[2])
            var_len_xy == List2(var_len[var_idx_xy[0]], var_len[var_idx_xy[1]])
            ens_mean == EnsMeanPos(plot_mean, var_idx_xy, num_members)
            ref_dim == RefDim(var_idx_xy)
            ref == IF include_ref
                   THEN [List2(None, None) EXCEPT ![ref_dim] = var_len_xy[ref_dim]]
                   ELSE List2(None, None)
            panel_shape == IF include_ref
                           THEN [var_len_xy EXCEPT ![ref_dim] = @ + 1]
                           ELSE var_len_xy
        IN  IF NeedsRearrange(panel_shape)
            THEN Rearrange(panel_shape, var_idx_xy, ens_mean, ref,
                           plot_mean, include_ref, swap)
            ELSE Finish(panel_shape, var_idx_xy,
                        AliasedVarLenXY(var_len_xy, panel_shape), ens_mean, ref, swap)

\* Line 479: the linear index of panel (i, j).
LinearIndex(panel_shape, i, j) == panel_shape[1] * i + j

IsEmptyPanelOffByOne(var_idx_xy, var_len_xy, k) ==
    Length(var_idx_xy) = 1 /\ k > var_len_xy[0]

\* Lines 480-484: in the rearranged layout a panel past the item count is deleted.
IsEmptyPanel(var_idx_xy, var_len_xy, k) ==
    Length(var_idx_xy) = 1 /\ k >= var_len_xy[0]

\* Lines 480-487: idx is one list, updated in place for every panel.
PanelIdx(idx, var_idx_xy, i, j, k) ==
    IF Length(var_idx_xy) = 1
    THEN [idx EXCEPT ![var_idx_xy[0]] = k]
    ELSE [[idx EXCEPT ![var_idx_xy[0]] = i] EXCEPT ![var_idx_xy[1]] = j]

\* Lines 491 and 500: a position of None matches every row / column.
SlotMatches(slot, i, j) ==
    /\ (slot[0] = None \/ i = slot[0])
    /\ (slot[1] = None \/ j = slot[1])

\* A label handed to the renderer: its kind and the item it names.
Label(kind, item) == [kind |-> kind, item |-> item]
NoLabel == Label("None", None)
Unbound == Label("unbound", None)

\* Line 471: labels = [model_label, lt_label, member_label].
labels(d, n) ==
    Label(CASE d = 0 -> "model" [] d = 1 -> "lead_time" [] OTHER -> "member", n)

\* Lines 457-470: lt_label reads lead_times[i] and member_label reads
\* self.members[i], which raise IndexError past the end; model_label never raises.
LabelRaises(d, n, nl, ens) ==
    \/ d = 1 /\ n >= nl
    \/ d = 2 /\ n >= ens

OrdinaryLabelXEveryRow(var_idx_xy, i, j, k) ==
    IF Length(var_idx_xy) = 1 THEN labels(var_idx_xy[0], k)
    ELSE labels(var_idx_xy[1], j)

\* Lines 507-511: the top label of an ordinary panel.
OrdinaryLabelX(var_idx_xy, i, j, k) ==
    IF Length(var_idx_xy) = 1 THEN labels(var_idx_xy[0], k)
    ELSE IF i = 0 THEN labels(var_idx_xy[1], j) ELSE NoLabel

\* Lines 507-512: the left label of an ordinary panel.
OrdinaryLabelY(var_idx_xy, i, j, k) ==
    IF Length(var_idx_xy) = 1 THEN NoLabel
    ELSE IF j = 0 THEN labels(var_idx_xy[0], i) ELSE NoLabel

\* Lines 507-512: whether building the labels of an ordinary panel raises.
OrdinaryLabelRaises(var_idx_xy, i, j, k, nl, ens) ==
    IF Length(var_idx_xy) = 1 THEN LabelRaises(var_idx_xy[0], k, nl, ens)
    ELSE \/ i = 0 /\ LabelRaises(var_idx_xy[1], j, nl, ens)
         \/ j = 0 /\ LabelRaises(var_idx_xy[0], i, nl, ens)

\* Lines 513 and 522: self.path_features[model_idx] is a list of one entry per
\* path and ds[field][ens_idx, lt_idx] has one row per member (data.py 57-67).
SelectionRaises(idx, nm, ens) == idx[0] >= nm \/ idx[2] >= ens

\* What one panel is bound to: which dataset and which indices select the data.
Data(src, model_idx, lt_idx, ens_idx) ==
    [src |-> src, model_idx |-> model_idx, lt_idx |-> lt_idx, ens_idx |-> ens_idx]

\* The outcome of one pass of the loop body, lines 479-524: the exception it
\* raises ("" for none), the panel handed on and the locals it leaves.
Outcome(exc, role, idx, lx, ly, bound, ds, data) ==
    [exc |-> exc, role |-> role, idx |-> idx, label_x |-> lx, label_y |-> ly,
     features_bound |-> bound, ds |-> ds, data |-> data]

\* Lines 479-524 for panel (i, j). lx, ly, bound and ds are the locals label_x,
\* label_y, (lat_grid, lon_grid, lat, lon, resolution) and ds as the previous
\* panels left them: the ensemble mean branch reads label_y, ds and the grids
\* without setting them, the reference branch reads resolution.
BindPanel(p, i, j, idx0, lx, ly, bound, ds, nm, nl, ens, plot_mean, incl_ref) ==
    LET k == LinearIndex(p.panel_shape, i, j)
        idx == PanelIdx(idx0, p.var_idx_xy, i, j, k)
        NoData == Data("None", None, None, None)
    IN  IF IsEmptyPanel(p.var_idx_xy, p.var_len_xy, k)
        THEN Outcome("", "empty", idx, lx, ly, bound, ds, NoData)
        ELSE IF plot_mean /\ Length(p.ens_mean) # 2
        THEN Outcome("ValueError", "none", idx, lx, ly, bound, ds, NoData)
        ELSE IF plot_mean /\ SlotMatches(p.ens_mean, i, j)
        THEN IF ~bound \/ ly = Unbound
             THEN Outcome("UnboundLocalError", "none", idx, lx, ly, bound, ds, NoData)
             ELSE Outcome("", "ensemble_mean", idx,
                          IF i = 0 THEN Label("ensemble mean", None) ELSE NoLabel,
                          ly, bound, ds, Data("mean", ds, idx[1], None))
        ELSE IF incl_ref /\ SlotMatches(p.ref_dim, i, j)
        THEN IF ~bound
             THEN Outcome("UnboundLocalError", "none", idx, lx, ly, bound, ds, NoData)
             ELSE Outcome("", "reference", idx,
                          IF i = 0 THEN Label("ref", None) ELSE NoLabel,
                          IF j = 0 THEN Label("ref", None) ELSE NoLabel,
                          bound, ds, Data("reference", None, idx[1], None))
        ELSE IF \/ OrdinaryLabelRaises(p.var_idx_xy, i, j, k, nl, ens)
                \/ SelectionRaises(idx, nm, ens)
        THEN Outcome("IndexError", "none", idx, lx, ly, bound, ds, NoData)
        ELSE Outcome("", "ordinary", idx,
                     OrdinaryLabelX(p.var_idx_xy, i, j, k),
                     OrdinaryLabelY(p.var_idx_xy, i, j, k),
                     TRUE, idx[0], Data("model", idx[0], idx[1], idx[2]))

\* Line 406: the lead_times argument of plot as an array; num_lead_times is its
\* length (line 454).
LeadTimeLists(nl) ==
    { [n \in 0..(nl - 1) |-> first + step * n] :
        first \in 0..MaxFirstLeadTime, step \in 1..MaxLeadTimeStep }

\* Lines 464-466: lt_label names the lead time 6 * lead_times[i] hours.
lt_label_hours(lts, n) == 6 * lts[n]

\* Lines 427-432: vmin and vmax read data_ref[field][lead_times] and
\* ds[field][:, lead_times]: the entries of the lead-time axis at the positions
\* that are the VALUES of lead_times.
VminLeadTimes(lts) == { lts[n] : n \in DOMAIN lts }

VARIABLES
    num_models, num_lead_times, lead_times, ens_size, plot_ens_mean, include_ref,
    swap_axes,
    pc, var_idx, plan,
    i, j, idx, label_x, label_y, features_bound, ds, panel, error

vars == <<num_models, num_lead_times, lead_times, ens_size, plot_ens_mean,
          include_ref, swap_axes, pc, var_idx, plan,
          i, j, idx, label_x, label_y, features_bound, ds, panel, error>>

args == <<num_models, num_lead_times, lead_times, ens_size, plot_ens_mean,
          include_ref, swap_axes>>
locals == <<i, j, idx, label_x, label_y, features_bound, ds, panel, error>>

NoPlan == Raised("not called")

\* The record of the panel the loop handled last.
Panel(role, pi, pj, pidx, lx, ly, data) ==
    [role |-> role, i |-> pi, j |-> pj, idx |-> pidx,
     label_x |-> lx, label_y |-> ly, data |-> data]
NoPanel == Panel("none", None, None, List3(0, 0, 0), NoLabel, NoLabel,
                 Data("None", None, None, None))

Init ==
    /\ num_models \in 1..MaxModels
    /\ num_lead_times \in 1..MaxLeadTimes
    /\ lead_times \in LeadTimeLists(num_lead_times)
    /\ ens_size \in {None} \cup 0..MaxEns
    /\ plot_ens_mean \in BOOLEAN
    /\ include_ref \in BOOLEAN
    /\ swap_axes \in BOOLEAN
    /\ pc = "call"
    /\ var_idx = List3(0, 1, 2)
    /\ plan = NoPlan
    /\ i = 0
    /\ j = 0
    /\ idx = List3(0, 0, 0)
    /\ label_x = Unbound
    /\ label_y = Unbound
    /\ features_bound = FALSE
    /\ ds = None
    /\ panel = NoPanel
    /\ error = ""

\* The call of panel_daemon (from plot, line 454, or directly).
PanelDaemon ==
    /\ pc = "call"
    /\ \E p \in ArgSorts(VarLen(num_models, num_lead_times, ens_size, plot_ens_mean)) :
        /\ var_idx' = p
        /\ plan' = panel_daemon(num_models, num_lead_times, ens_size,
                                plot_ens_mean, include_ref, swap_axes, p)
    /\ pc' = IF plan'.status = "ok" THEN "returned" ELSE "raised"
    /\ error' = IF plan'.status = "ok" THEN "" ELSE plan'.status
    /\ UNCHANGED <<args, i, j, idx, label_x, label_y, features_bound, ds, panel>>

\* Lines 429-430, 455 and 474: plot goes on with the plan. It passes
\* self.ens_size = len(self.members) (line 247), never None; ds is left by the
\* loop of line 429 as the dataset of the last path.
Subplots ==
    /\ pc = "returned"
    /\ ens_size # None
    /\ pc' = "loop"
    /\ i' = 0
    /\ j' = 0
    /\ idx' = List3(0, 0, 0)
    /\ ds' = num_models - 1
    /\ UNCHANGED <<args, var_idx, plan, label_x, label_y, features_bound, panel, error>>

\* One pass of the loop body of lines 477-524, for panel (i, j).
PlotPanel ==
    /\ pc = "loop"
    /\ i < plan.panel_shape[0]
    /\ LET out == BindPanel(plan, i, j, idx, label_x, label_y, features_bound, ds,
                            num_models, num_lead_times, ens_size,
                            plot_ens_mean, include_ref)
           last == j + 1 = plan.panel_shape[1]
       IN  /\ idx' = out.idx
           /\ IF out.exc # ""
              THEN /\ pc' = "aborted"
                   /\ error' = out.exc
                   /\ UNCHANGED <<i, j, label_x, label_y, features_bound, ds, panel>>
              ELSE /\ pc' = "loop"
                   /\ error' = ""
                   /\ panel' = Panel(out.role, i, j, out.idx,
                                     IF out.role = "empty" THEN NoLabel ELSE out.label_x,
                                     IF out.role = "empty" THEN NoLabel ELSE out.label_y,
                                     out.data)
                   /\ label_x' = out.label_x
                   /\ label_y' = out.label_y
                   /\ features_bound' = out.features_bound
                   /\ ds' = out.ds
                   /\ i' = IF last THEN i + 1 ELSE i
                   /\ j' = IF last THEN 0 ELSE j + 1
    /\ UNCHANGED <<args, var_idx, plan>>

\* Line 525: the loop is over and the figure is finished.
ProcessFig ==
    /\ pc = "loop"
    /\ i = plan.panel_shape[0]
    /\ pc' = "done"
    /\ UNCHANGED <<args, var_idx, plan, locals>>

Next == PanelDaemon \/ Subplots \/ PlotPanel \/ ProcessFig

Spec == Init /\ [][Next]_vars

(***************************************************************************)
(* The properties checked.                                                 *)
(***************************************************************************)

\* The resolved length vector [num_models, num_lead_times, member_slots] of the
\* specification, from the arguments alone.
MemberSlots ==
    (IF ens_size = None THEN (IF plot_ens_mean THEN 0 ELSE 1) ELSE ens_size)
        + (IF plot_ens_mean THEN 1 ELSE 0)
LengthVector == List3(num_models, num_lead_times, MemberSlots)

Called == pc # "call"
Returned == Called /\ plan.status = "ok"
Collapsed == Returned /\ Length(plan.var_idx_xy) = 1
TwoAxes == Returned /\ Length(plan.var_idx_xy) = 2
Rendered == panel.role \in {"ordinary", "ensemble_mean", "reference"}

\* C1: whenever the length vector has no 0 and at most one entry above 1,
\* panel_daemon returns without any error a panel_shape with both entries >= 1.
C1_ResolvesWhenOneDimensionVaries ==
    ( /\ Called
      /\ \A d \in Dims : LengthVector[d] # 0
      /\ Cardinality({d \in Dims : LengthVector[d] > 1}) <= 1 )
    => ( /\ plan.status = "ok"
         /\ plan.panel_shape[0] >= 1
         /\ plan.panel_shape[1] >= 1 )

\* C2: panel_daemon raises the invalid-dimension error (the AssertionError of
\* lines 86-87), and returns no plan, exactly for the inputs whose length vector
\* holds a 0 or holds no 1.
C2_InvalidDimensionExactly ==
    Called =>
        ( plan.status = "AssertionError"
          <=> ( \/ \E d \in Dims : LengthVector[d] = 0
                \/ \A d \in Dims : LengthVector[d] # 1 ) )

\* C2's case: (num_models=3, num_lead_times=4, ensemble_size=2) was rejected.
C2_Witness ==
    /\ pc = "raised"
    /\ num_models = 3 /\ num_lead_times = 4 /\ ens_size = 2 /\ ~plot_ens_mean
    /\ plan.status = "AssertionError"

C3_Input ==
    /\ num_models = 1 /\ num_lead_times = 3 /\ ens_size = None
    /\ ~plot_ens_mean /\ ~include_ref /\ ~swap_axes

\* C3 as stated: (1, 3, undefined, no mean, no reference) gives panel_shape (1,3)
\* by the two-axis assignment, without the collapse.
C3_DirectShape ==
    (Called /\ C3_Input)
    => ( /\ plan.status = "ok"
         /\ plan.panel_shape = List2(1, 3)
         /\ Length(plan.var_idx_xy) = 2 )

\* C3 amended: the same input goes through the collapse (its first shape (1,3)
\* has an entry below 2) and gives panel_shape (2,2), the table entry of 3, with
\* LeadTime the one axis left, of length 3.
C3_CollapsedShape ==
    (Called /\ C3_Input)
    => ( /\ plan.status = "ok"
         /\ plan.panel_shape = List2(2, 2)
         /\ Length(plan.var_idx_xy) = 1
         /\ plan.var_idx_xy[0] = 1
         /\ plan.var_len_xy[0] = 3 )

C3_Witness == Returned /\ C3_Input

\* The packing table as the specification states it.
PackingTable(c) ==
    CASE c = 1 -> List2(1, 1)
      [] c = 2 -> List2(1, 2)
      [] c \in {3, 4} -> List2(2, 2)
      [] c \in {5, 6} -> List2(2, 3)
      [] c \in {7, 8} -> List2(2, 4)
      [] c = 9 -> List2(3, 3)
      [] c \in {10, 11, 12} -> List2(3, 4)
      [] c \in {13, 14, 15, 16} -> List2(4, 4)

\* C4: after a collapse with the count C (swap_axes=False) panel_shape is the
\* table entry of C, rows <= cols, rows * cols >= C, and the loop treats as
\* empty exactly the panels whose linear index cols * i + j is >= C: it deletes
\* those, and every panel it renders or fails on has an index < C.
C4_CollapseTableAndEmptyPanels ==
    (Collapsed /\ ~swap_axes)
    => LET C == plan.var_len_xy[0]
           rows == plan.panel_shape[0]
           cols == plan.panel_shape[1]
       IN  /\ C \in 1..16
           /\ plan.panel_shape = PackingTable(C)
           /\ rows <= cols
           /\ rows * cols >= C
           /\ panel.role # "none"
                => (panel.role = "empty" <=> cols * panel.i + panel.j >= C)
           /\ pc = "aborted" => cols * i + j < C

\* C4's case: 7 lead times, shape (2,4), the last panel (1,3) was deleted.
C4_Witness ==
    /\ Collapsed /\ ~swap_axes
    /\ num_models = 1 /\ num_lead_times = 7 /\ ~plot_ens_mean /\ ~include_ref
    /\ plan.panel_shape = List2(2, 4)
    /\ panel.role = "empty" /\ panel.i = 1 /\ panel.j = 3
    /\ pc = "done"

\* C5: with a reference and no collapse (swap_axes=False) the reference is
\* appended along an assigned axis a that is not LeadTime: panel_shape[a] is that
\* dimension's slot count plus 1, the other entry is the other dimension's slot
\* count, and the reference position is the last index along a and None
\* (every position) along the other axis.
C5_ReferenceAppendedOffLeadTime ==
    (TwoAxes /\ include_ref /\ ~swap_axes)
    => \E a \in 0..1 :
         LET b == 1 - a
         IN  /\ plan.var_idx_xy[a] # 1
             /\ plan.panel_shape[a] = LengthVector[plan.var_idx_xy[a]] + 1
             /\ plan.panel_shape[b] = LengthVector[plan.var_idx_xy[b]]
             /\ plan.ref_dim[a] = plan.panel_shape[a] - 1
             /\ plan.ref_dim[b] = None

\* C5's case: 2 models and 4 lead times give (3,4), the reference in row 2.
C5_Witness ==
    /\ TwoAxes /\ include_ref /\ ~swap_axes
    /\ num_models = 2 /\ num_lead_times = 4 /\ ~plot_ens_mean
    /\ plan.panel_shape = List2(3, 4)
    /\ plan.var_idx_xy = List2(0, 1)
    /\ plan.ref_dim = List2(2, None)

\* The ensemble mean position of the plan, read as the source documents it:
\* (all panels, position along the first axis, position along the second axis).
C6_MeanSlotOf(p) ==
    IF \E a \in 0..1 : p.var_idx_xy[a] = 2
    THEN LET a == CHOOSE a \in 0..1 : p.var_idx_xy[a] = 2
         IN  /\ p.ens_mean[0] = None
             /\ p.ens_mean[1 + a] = MemberSlots - 1
             /\ p.ens_mean[1 + (1 - a)] = None
    ELSE /\ p.ens_mean[0] # None
         /\ p.ens_mean[1] = None
         /\ p.ens_mean[2] = None

\* C6: with the ensemble mean and no collapse, the mean position is the index
\* member_slots - 1 along the Ensemble axis and None along the other axis when
\* Ensemble is an assigned axis, and the "all panels" flag otherwise.
C6_EnsembleMeanSlot ==
    (TwoAxes /\ plot_ens_mean)
    => (Length(plan.ens_mean) = 3 /\ C6_MeanSlotOf(plan))

\* Whether pos is the (row, column) of the rendered panel of the collapsed grid
\* that holds the given item of the one varying dimension.
C7_CellHolds(pos, item) ==
    /\ Length(pos) = 2
    /\ pos[0] \in 0..(plan.panel_shape[0] - 1)
    /\ pos[1] \in 0..(plan.panel_shape[1] - 1)
    /\ LinearIndex(plan.panel_shape, pos[0], pos[1]) = item
    /\ item < Last(plan.var_len_xy)

\* C7: after a collapse the remapped mean and reference positions are the
\* coordinates of the non-empty panel that holds the mean slot (item
\* member_slots - 1 of Ensemble) and the reference slot (the last item).
C7_RemappedSlotsInsideGrid ==
    Collapsed
    => ( /\ plot_ens_mean => C7_CellHolds(plan.ens_mean, MemberSlots - 1)
         /\ include_ref => C7_CellHolds(plan.ref_dim, Last(plan.var_len_xy) - 1) )

\* Whether panel (pi, pj) is the ensemble mean panel of the plan: the "all" flag
\* is set, or the panel lies at the position given along each axis.
C8_IsMeanPanel(pi, pj) ==
    /\ plot_ens_mean
    /\ IF Length(plan.ens_mean) = 3
       THEN \/ plan.ens_mean[0] # None
            \/ /\ (plan.ens_mean[1] # None \/ plan.ens_mean[2] # None)
               /\ (plan.ens_mean[1] = None \/ plan.ens_mean[1] = pi)
               /\ (plan.ens_mean[2] = None \/ plan.ens_mean[2] = pj)
       ELSE plan.ens_mean[0] = pi /\ plan.ens_mean[1] = pj

C8_IsReferencePanel(pi, pj) ==
    /\ include_ref
    /\ (plan.ref_dim[0] = None \/ plan.ref_dim[0] = pi)
    /\ (plan.ref_dim[1] = None \/ plan.ref_dim[1] = pj)

\* C8: for every plan returned, the loop goes over all panels without failing
\* and gives every non-empty panel its role by the rule: ensemble_mean if it
\* matches the mean position, else reference (data from the reference dataset,
\* by lt_idx alone) if it matches the reference position, else ordinary.
C8_RoleOfEveryPanel ==
    /\ pc # "aborted"
    /\ Rendered =>
         /\ panel.role =
              IF C8_IsMeanPanel(panel.i, panel.j) THEN "ensemble_mean"
              ELSE IF C8_IsReferencePanel(panel.i, panel.j) THEN "reference"
              ELSE "ordinary"
         /\ panel.role = "reference"
              => panel.data = Data("reference", None, panel.idx[1], None)

\* The transpose of a position or a pair: the entries of the two grid axes
\* exchanged, the "all panels" entry of a mean position left in place.
C9_Transposed(t) ==
    IF Length(t) = 3 THEN List3(t[0], t[2], t[1])
    ELSE IF Length(t) = 2 THEN List2(t[1], t[0])
    ELSE t

\* C9: when the call with swap_axes=False returns a plan, the call with
\* swap_axes=True returns its transpose.
C9_SwapIsTranspose ==
    (Called /\ swap_axes)
    => LET p0 == panel_daemon(num_models, num_lead_times, ens_size,
                              plot_ens_mean, include_ref, FALSE, var_idx)
       IN  p0.status = "ok"
           => /\ plan.status = "ok"
              /\ plan.panel_shape = C9_Transposed(p0.panel_shape)
              /\ plan.var_idx_xy = C9_Transposed(p0.var_idx_xy)
              /\ plan.var_len_xy = C9_Transposed(p0.var_len_xy)
              /\ plan.ref_dim = C9_Transposed(p0.ref_dim)
              /\ plan.ens_mean = C9_Transposed(p0.ens_mean)

\* C10 as stated: in every layout a rendered panel has a top label only in row 0
\* and a left label only in column 0.
C10_EdgeLabelsOnly ==
    Rendered
    => /\ panel.label_x # NoLabel => panel.i = 0
       /\ panel.label_y # NoLabel => panel.j = 0

\* C10 amended: that holds in the two-axis layouts (and for Model on the rows and
\* LeadTime on the columns exactly row 0 has top labels and exactly column 0
\* left labels); in a collapsed layout every rendered panel has the top label
\* of its own item cols * i + j, in whatever row, and no left label.
C10_EdgeLabelsInTwoAxisLayouts ==
    Rendered
    => /\ panel.label_x # Unbound /\ panel.label_y # Unbound
       /\ TwoAxes
            => /\ panel.label_x # NoLabel => panel.i = 0
               /\ panel.label_y # NoLabel => panel.j = 0
       /\ (TwoAxes /\ plan.var_idx_xy = List2(0, 1))
            => /\ panel.label_x # NoLabel <=> panel.i = 0
               /\ panel.label_y # NoLabel <=> panel.j = 0
       /\ Collapsed
            => /\ panel.label_x # NoLabel
               /\ panel.label_x.item = plan.panel_shape[1] * panel.i + panel.j
               /\ panel.label_y = NoLabel

\* C10's case: the (2,3) grid of 2 models by 3 lead times, at panel (1,0): a
\* left label and no top label.
C10_Witness ==
    /\ TwoAxes /\ plan.panel_shape = List2(2, 3) /\ plan.var_idx_xy = List2(0, 1)
    /\ panel.role = "ordinary" /\ panel.i = 1 /\ panel.j = 0
    /\ panel.label_x = NoLabel
    /\ panel.label_y = Label("model", 1)

\* The panel shape before any rearrangement, from the arguments and the order
\* var_idx of the dimensions: the two longest dimensions, plus the reference
\* slot on the first axis unless that is LeadTime.
C11_FirstShape ==
    LET a == var_idx[1]
        b == var_idx[2]
        r == IF a # 1 THEN 0 ELSE 1
    IN  List2(LengthVector[a] + (IF include_ref /\ r = 0 THEN 1 ELSE 0),
              LengthVector[b] + (IF include_ref /\ r = 1 THEN 1 ELSE 0))

C11_ValidVector ==
    /\ \A d \in Dims : LengthVector[d] # 0
    /\ \E d \in Dims : LengthVector[d] = 1

C11_CollapseTaken ==
    C11_ValidVector /\ (C11_FirstShape[0] < 2 \/ C11_FirstShape[1] < 2)

\* C11: panel_daemon raises the panel-limit error (the ValueError of line 131),
\* and returns no plan, exactly when the collapse is taken with a count C above
\* 16; a collapsed plan it returns has C <= 16 and at least C cells.
C11_PanelLimitExactly ==
    Called
    => /\ plan.status = "ValueError"
            <=> (C11_CollapseTaken /\ C11_FirstShape[1] > 16)
       /\ plan.status = "ValueError" => pc = "raised"
       /\ Collapsed
            => /\ plan.var_len_xy[0] = C11_FirstShape[1]
               /\ plan.var_len_xy[0] <= 16
               /\ plan.panel_shape[0] * plan.panel_shape[1] >= plan.var_len_xy[0]

\* C11's case: 17 lead times and nothing else were refused.
C11_Witness ==
    /\ pc = "raised" /\ plan.status = "ValueError"
    /\ num_models = 1 /\ num_lead_times = 17 /\ ~plot_ens_mean /\ ~include_ref

\* C12 as stated: the returned axis lengths are the item counts of the assigned
\* dimensions without the reference slot, so along the reference axis of a
\* two-axis plan they are panel_shape minus 1, and in a collapsed plan with a
\* reference the one length is the panel count minus 1.
C12_AxisLengthsExcludeReference ==
    Returned
    => /\ \A a \in DOMAIN plan.var_len_xy :
            plan.var_len_xy[a] = LengthVector[plan.var_idx_xy[a]]
       /\ (TwoAxes /\ include_ref)
            => \E a \in 0..1 :
                 /\ plan.ref_dim[a] # None
                 /\ plan.var_len_xy[a] = plan.panel_shape[a] - 1

\* C12 amended: the returned axis lengths count the reference slot: in a
\* two-axis plan they equal panel_shape on both axes (the item count of the
\* dimension, plus 1 on the reference axis), and in a collapsed plan the one
\* length is the item count of the one dimension plus 1 with a reference;
\* without a reference they are the item counts.
C12_AxisLengthsIncludeReference ==
    /\ TwoAxes
         => /\ plan.var_len_xy = plan.panel_shape
            /\ \A a \in 0..1 :
                 plan.var_len_xy[a] =
                     LengthVector[plan.var_idx_xy[a]]
                         + (IF include_ref /\ plan.ref_dim[a] # None THEN 1 ELSE 0)
    /\ Collapsed
         => plan.var_len_xy[0] =
                LengthVector[plan.var_idx_xy[0]] + (IF include_ref THEN 1 ELSE 0)

\* C12's case: 2 models, 4 lead times and a reference: lengths (3,4), not (2,4).
C12_Witness ==
    /\ TwoAxes /\ include_ref /\ ~swap_axes
    /\ num_models = 2 /\ num_lead_times = 4 /\ ~plot_ens_mean
    /\ plan.panel_shape = List2(3, 4)
    /\ plan.var_len_xy = List2(3, 4)

\* The dimension that is on neither axis of a two-axis plan.
C13_Unassigned ==
    CHOOSE c \in Dims : c # plan.var_idx_xy[0] /\ c # plan.var_idx_xy[1]

\* e counts as longer than d under the stated precedence: it is longer, or as
\* long and declared later (Model < LeadTime < Ensemble).
C13_CountsAsLonger(d, e) ==
    \/ LengthVector[d] < LengthVector[e]
    \/ LengthVector[d] = LengthVector[e] /\ d < e

C14_RealCount == List3(num_models, num_lead_times, ens_size)

\* C14: whenever the loop takes a panel as an ordinary one, the indices it
\* selects the data with lie within the real counts (so it never fails on them
\* and never uses the index of the mean or reference slot), and the index of a
\* dimension on no axis is 0.
C14_OrdinaryIndicesInRange ==
    /\ (pc = "aborted" /\ error = "IndexError")
         => \A d \in Dims : idx[d] < C14_RealCount[d]
    /\ (Returned /\ panel.role = "ordinary")
         => \A d \in Dims :
              /\ panel.idx[d] < C14_RealCount[d]
              /\ (\A a \in DOMAIN plan.var_idx_xy : plan.var_idx_xy[a] # d)
                   => panel.idx[d] = 0

\* C15: the data of an ordinary or reference panel is the entry of the
\* lead-time axis at the requested lead time lead_times[lt_idx]: the one its
\* "+Nh" label names (N = 6 * lead time) and one that vmin and vmax have read.
C15_DataAtRequestedLeadTime ==
    (Returned /\ panel.role \in {"ordinary", "reference"})
    => /\ panel.data.lt_idx = lead_times[panel.idx[1]]
       /\ 6 * panel.data.lt_idx = lt_label_hours(lead_times, panel.idx[1])
       /\ panel.data.lt_idx \in VminLeadTimes(lead_times)
====
